---- MODULE Spec2Model ----
(***************************************************************************)
(* One websocket session of server.py: the correlation Bus (reader task,   *)
(* pending tables, event queue), the query/command client functions, the   *)
(* handler's fill / poll / drain tick loop with its teardown, the          *)
(* speed_jitter task and the per-target poll tasks.                        *)
(*                                                                         *)
(* asyncio runs one task at a time and switches only at an await that      *)
(* really suspends.  Each action below is the run of one task from one     *)
(* suspension point to the next.  Where a run of the handler is split in   *)
(* several actions (the fill loop head, the drain loop), the handler's     *)
(* position is not a suspension point and no other task may step.          *)
(***************************************************************************)
EXTENDS Integers, Sequences, FiniteSets, TLC

\* ------------------------------------------------------------- bounds
\* uuid4 message ids are drawn from 1..MaxMsgs: at most MaxMsgs ids are
\* held by live objects at any one time.
MaxMsgs == 4
\* Rows route_log.csv may grow to.
MaxLog == 3
\* The asyncio.Queue of events is unbounded; the peer stops sending
\* unsolicited events once this many are queued.
MaxBacklog == 1
\* The same cap for the sessions in which the peer sends events in bursts.
MaxBurst == 2
\* CONCURRENCY ranges over 1..MaxConc.
MaxConc == 2
\* t_sim values carried by responses: 0 stands for an absent t_sim.
MaxTSim == 1

\* Target sets the session may be configured with (TARGETS).
TargetSets == {{"A"}, {"A", "B"}}
AllTargets == UNION TargetSets

NoTarget == "None"
NoId == 0
\* An id the peer made up: no command or query of the session carries it.
UnknownId == -1
Ids == 1..MaxMsgs
TSims == 0..MaxTSim
ErrorTexts == {"", "boom"}

\* ------------------------------------------------------------- frames
\* A decoded inbound envelope; absent fields hold NoId / "" / 0.
Frame(ty, mid, ref, ev, tid, err, det, ts) ==
    [type |-> ty, msg_id |-> mid, ref_msg_id |-> ref, event |-> ev,
     target_id |-> tid, error |-> err, detail |-> det, t_sim |-> ts]

NoFrame == Frame("none", NoId, NoId, "", "", "", "", 0)

ResponseFrames(ids) ==
    {Frame("response", m, NoId, "", "", "", "", ts) : m \in ids, ts \in TSims}
    \cup {Frame("response", m, NoId, "", "", e, "", 0) :
             m \in ids, e \in ErrorTexts \ {""}}

AckFrames(ids) ==
    {Frame("event", NoId, r, "command.ack", "", "", "", 0) : r \in ids}

\* Acknowledging events whose event value is neither command.ack nor
\* command.error.
OtherAckFrames(ids) ==
    {Frame("event", NoId, r, "other", "", "", "", 0) : r \in ids}

ErrorFrames(ids) ==
    {Frame("event", NoId, r, "command.error", "", "", "denied", 0) : r \in ids}

CompleteFrames(ts) ==
    {Frame("event", NoId, NoId, "route.complete", t, "", "", 0) : t \in ts}

\* Unsolicited events of another kind that name a target.
OtherEventFrames(ts) ==
    {Frame("event", NoId, NoId, "other", t, "", "", 0) : t \in ts}

\* Frames that are no well-formed envelope: text json.loads rejects
\* ("undecodable"), JSON text that is not an object, such as a list or a
\* number ("nondict"), and an object without a known type ("untyped").
MalformedFrames ==
    {Frame(ty, NoId, NoId, "", "", "", "", 0) :
        ty \in {"undecodable", "nondict", "untyped"}}

\* ------------------------------------------------------------- helpers
Remove(f, k) == [x \in (DOMAIN f) \ {k} |-> f[x]]
Put(f, k, v) == [x \in (DOMAIN f) \cup {k} |-> IF x = k THEN v ELSE f[x]]

VARIABLES
    targets,          \* TARGETS
    conc,             \* CONCURRENCY
    conn,             \* the websocket: "open" or "closed"
    reader,           \* Bus._reader_task: "running", "cancelling",
                      \*   "cancelled", "ended", "failed" (ended with
                      \*   ConnectionClosedError), "crashed" (ended with
                      \*   another exception)
    pending_queries,  \* keys of Bus.pending_queries
    pending_acks,     \* keys of Bus.pending_acks
    futs,             \* the live asyncio.Future objects, by message id
    events,           \* Bus.events
    active,           \* handler's active pool
    recently_used,    \* handler's recently_used
    hpc,              \* handler's position
    target,           \* handler's fill candidate
    hmid,             \* id of the future the handler awaits
    start_t_sim,      \* handler's start_t_sim
    herr,             \* the exception caught by the fill step's except
    jpc,              \* speed_jitter's position
    jmid,             \* id of the future speed_jitter awaits
    poll,             \* the poll round's tasks, by target
    route_log,        \* rows appended to route_log.csv
    pos_log,          \* rows appended to positions.csv in the current tick
    speed_log         \* rows appended to speed_log.csv by speed_jitter's
                      \*   latest set_speed call

vars == <<targets, conc, conn, reader, pending_queries, pending_acks, futs,
          events, active, recently_used, hpc, target, hmid,
          start_t_sim, herr, jpc, jmid, poll, route_log, pos_log, speed_log>>

cfgVars == <<targets, conc>>
busVars == <<pending_queries, pending_acks, futs>>
fillVars == <<target, hmid, start_t_sim, herr>>
jitVars == <<jpc, jmid>>
logVars == <<route_log, pos_log, speed_log>>

\* A future as created by loop.create_future(): kind names the function
\* that created it, nres counts the set_result calls made on it.
NewFuture(kind) == [kind |-> kind, st |-> "pending", frame |-> NoFrame, nres |-> 0]

NoErr == <<>>

Init ==
    /\ targets \in TargetSets
    /\ conc \in 1..MaxConc
    /\ conn = "open"
    /\ reader = "running"
    /\ pending_queries = {}
    /\ pending_acks = {}
    /\ futs = <<>>
    /\ events = <<>>
    /\ active = <<>>
    /\ recently_used = NoTarget
    /\ hpc = "fill"
    /\ target = NoTarget
    /\ hmid = NoId
    /\ start_t_sim = 0
    /\ herr = NoErr
    /\ jpc = "sleep"
    /\ jmid = NoId
    /\ poll = <<>>
    /\ route_log = <<>>
    /\ pos_log = {}
    /\ speed_log = <<>>

\* ------------------------------------------------------------- tasks
\* The handler positions at which the handler task is suspended in an await.
HandlerSuspendedAt ==
    {"fill_query", "fill_route", "fill_yield", "poll_wait", "pause",
     "td_jitter", "td_reader", "done", "raised"}

HandlerSuspended == hpc \in HandlerSuspendedAt

\* m is the id of a future some task is suspended on (`return await fut`).
Awaited(m) ==
    \/ hpc \in {"fill_query", "fill_route"} /\ hmid = m
    \/ jpc = "wait_ack" /\ jmid = m
    \/ \E t \in DOMAIN poll : poll[t].st = "wait" /\ poll[t].mid = m

Resolved(m) == m \in DOMAIN futs /\ futs[m].st = "result"

\* ------------------------------------------------------------- Bus
\* str(uuid.uuid4()): an id no live object holds.  Ids held by nothing are
\* indistinguishable from ids never drawn, so the smallest one is drawn.
SeqRange(q) == {q[i] : i \in 1..Len(q)}

\* The ids free when the live futures are those of f.
FreeIdsWith(f) ==
    Ids \ ((DOMAIN f)
             \cup {active[t].cmd_id : t \in DOMAIN active}
             \cup {r.ref_msg_id : r \in SeqRange(route_log)}
             \cup {e.ref_msg_id : e \in SeqRange(events)})

FreeIds == FreeIdsWith(futs)

Smallest(S) == CHOOSE i \in S : \A j \in S : i <= j

FreshId == Smallest(FreeIds)

\* Bus.send_query up to its send: mid = payload["msg_id"], a new future is
\* stored under it in pending_queries.  base is futs before the call.
RegisterQuery(base, mid) ==
    /\ pending_queries' = pending_queries \cup {mid}
    /\ futs' = Put(base, mid, NewFuture("query"))
    /\ UNCHANGED pending_acks

\* Bus.send_cmd_wait_ack up to its send.
RegisterAck(base, mid) ==
    /\ pending_acks' = pending_acks \cup {mid}
    /\ futs' = Put(base, mid, NewFuture("ack"))
    /\ UNCHANGED pending_queries

\* ws.send succeeds on an open connection and raises ConnectionClosed
\* on a closed one.
SendSucceeds == conn = "open"

ConnectionClosedErr == <<"ConnectionClosed">>

\* The table the reader looks the frame's id up in.
WaiterTable_swapped(msg) == IF msg.type = "response" THEN "acks" ELSE "queries"
WaiterTable_queriesOnly(msg) == "queries"
WaiterTable(msg) == IF msg.type = "response" THEN "queries" ELSE "acks"

\* The id the reader looks up: msg.get("msg_id") / msg.get("ref_msg_id").
WaiterKey(msg) == IF msg.type = "response" THEN msg.msg_id ELSE msg.ref_msg_id

\* `fut and not fut.done()`
Resolvable(fut) == fut.st = "pending"

\* fut.set_result(msg)
SetResult(fut, msg) == [fut EXCEPT !.st = "result", !.frame = msg, !.nres = @ + 1]

\* self.pending_*.pop(key, None)
PopEntry(tbl, key) == tbl \ {key}

\* await self.events.put(msg)
EnqueueEvent(q, msg) == Append(q, msg)

\* The reader task is alive: it takes the next frame of `async for`.
ReaderRuns_afterCancel == reader \in {"running", "cancelling", "cancelled"}
ReaderRuns == reader = "running"

\* msg.get("type") on a decoded value that is no dict raises AttributeError,
\* which nothing in the reader catches: the reader task ends with it.  (Text
\* json.loads rejects is skipped by `except Exception: continue`.)
ReaderCrashes(msg) == msg.type = "nondict"

\* The `else` branch of the event case: the frame goes to the backlog.
Queued_anyType(msg, resolve) == ~resolve /\ msg.type \in {"response", "event"}
Queued(msg, resolve) == msg.type = "event" /\ ~resolve

\* Frames the peer may put on the wire: responses that name an id of either
\* pending table or an id of no query or command, command.ack events that
\* name an id of either pending table, command.error events and events of
\* another value for the pending commands, route.complete events for any
\* target and other unsolicited events for the pooled targets (neither
\* carries a ref_msg_id), and frames that are no envelope.
PeerFrames ==
    LET live == pending_queries \cup pending_acks
    IN  ResponseFrames(live \cup {UnknownId}) \cup AckFrames(live)
           \cup ErrorFrames(pending_acks) \cup OtherAckFrames(pending_acks)
           \cup CompleteFrames(targets) \cup OtherEventFrames(DOMAIN active)
           \cup MalformedFrames

\* One iteration of Bus._reader on the decoded frame msg; the peer sends no
\* frame bound for the backlog once the backlog holds cap events.
ReaderIteration(msg, cap) ==
    LET key == WaiterKey(msg)
        tname == WaiterTable(msg)
        tbl == IF tname = "queries" THEN pending_queries ELSE pending_acks
        found == msg.type \in {"response", "event"} /\ key # NoId /\ key \in tbl
        resolve == found /\ Resolvable(futs[key])
        fut2 == IF resolve THEN SetResult(futs[key], msg) ELSE futs[key]
        queue == Queued(msg, resolve)
    IN  /\ ReaderRuns
        /\ conn = "open"
        /\ HandlerSuspended
        /\ queue => Len(events) < cap
        /\ pending_queries' =
              IF found /\ tname = "queries" THEN PopEntry(pending_queries, key)
              ELSE pending_queries
        /\ pending_acks' =
              IF found /\ tname = "acks" THEN PopEntry(pending_acks, key)
              ELSE pending_acks
        /\ futs' = IF ~found THEN futs
                   ELSE IF Awaited(key) THEN Put(futs, key, fut2)
                   ELSE Remove(futs, key)
        /\ events' = IF queue THEN EnqueueEvent(events, msg) ELSE events
        /\ reader' = IF ReaderCrashes(msg) THEN "crashed" ELSE reader
        /\ UNCHANGED <<cfgVars, conn, active, recently_used, hpc,
                       fillVars, jitVars, poll, logVars>>

ReaderDispatch(msg) == ReaderIteration(msg, MaxBacklog)

ReaderRecv == \E msg \in PeerFrames : ReaderDispatch(msg)

\* The reader's iteration in a session whose peer sends events in bursts.
ReaderRecvBurst == \E msg \in PeerFrames : ReaderIteration(msg, MaxBurst)

\* `async for raw in self.ws` on a closed connection: the loop ends after a
\* normal closure (close code 1000 or 1001) and raises ConnectionClosedError
\* after any other one.
ReaderClosed ==
    /\ reader = "running"
    /\ conn = "closed"
    /\ HandlerSuspended
    /\ reader' \in {"ended", "failed"}
    /\ UNCHANGED <<cfgVars, conn, busVars, events, active, recently_used, hpc,
                   fillVars, jitVars, poll, logVars>>

\* The reader task runs after Task.cancel(): CancelledError ends it.
ReaderCancelled ==
    /\ reader = "cancelling"
    /\ HandlerSuspended
    /\ reader' = "cancelled"
    /\ UNCHANGED <<cfgVars, conn, busVars, events, active, recently_used, hpc,
                   fillVars, jitVars, poll, logVars>>

\* The peer (or the network) closes the connection.
ConnClose ==
    /\ conn = "open"
    /\ HandlerSuspended
    /\ conn' = "closed"
    /\ UNCHANGED <<cfgVars, reader, busVars, events, active, recently_used, hpc,
                   fillVars, jitVars, poll, logVars>>

\* ------------------------------------------------------------- client
\* query_position: `if resp.get("error")`
ResponseFails_never(resp) == FALSE
ResponseFails(resp) == resp.error # ""

\* RuntimeError(f"get.position error for {target_id}: {resp['error']}")
QueryErrorMsg(t, resp) == <<"get.position error for", t, resp.error>>

\* start_route / set_speed: `if ack.get("event") == "command.error"`
AckFails_notAck(ack) == ack.event # "command.ack"
AckFails(ack) == ack.event = "command.error"

\* RuntimeError(f"set.route failed for {target_id}: {ack.get('detail')}")
RouteErrorMsg(t, ack) == <<"set.route failed for", t, ack.detail>>

\* log_route_event(target_id, event, ref_msg_id, t_sim): the target_id,
\* event and ref_msg_id columns of the appended row.
RouteRow(t, ev, cmd) == [target_id |-> t, event |-> ev, ref_msg_id |-> cmd]

\* append_position_to_csv(target_id, t_sim, pos): the target_id and t_sim
\* columns of the appended row.
PosRow(t, ts) == [target_id |-> t, t_sim |-> ts]

\* log_speed_change(target_id, cmd_id, ...): the cmd_id column of the
\* appended row.
SpeedRow(cmd) == [cmd_id |-> cmd]

\* ------------------------------------------------------------- handler
\* `while len(active) < CONCURRENCY`
PoolNotFull_anyEntry(act, c) == Cardinality(DOMAIN act) < 1
PoolNotFull_orEqual(act, c) == Cardinality(DOMAIN act) <= c
PoolNotFull(act, c) == Cardinality(DOMAIN act) < c

\* candidates = [not active and not recently_used] or [not active] or TARGETS
Candidates_noSecond(T, act, ru) ==
    LET c1 == {t \in T : t \notin DOMAIN act /\ t # ru}
    IN  IF c1 # {} THEN c1 ELSE T
Candidates_keepsLast(T, act, ru) ==
    LET c2 == {t \in T : t \notin DOMAIN act}
    IN  IF c2 # {} THEN c2 ELSE T
Candidates(T, act, ru) ==
    LET c1 == {t \in T : t \notin DOMAIN act /\ t # ru}
        c2 == {t \in T : t \notin DOMAIN act}
    IN  IF c1 # {} THEN c1 ELSE IF c2 # {} THEN c2 ELSE T

\* The locals of a fill attempt are not read again before the next pick
\* assigns them: they are put back to their placeholders.
AttemptOver ==
    /\ target' = NoTarget
    /\ hmid' = NoId
    /\ start_t_sim' = 0

\* The fill step's `except Exception as err`: remember the candidate and
\* yield once (asyncio.sleep(0)) before the retry.
FillFailed_forgets(err) ==
    /\ herr' = err
    /\ recently_used' = recently_used
    /\ hmid' = NoId
    /\ hpc' = "fill_yield"
FillFailed(err) ==
    /\ herr' = err
    /\ recently_used' = target
    /\ hmid' = NoId
    /\ hpc' = "fill_yield"

\* Head of the fill loop with a free slot: target = random.choice(candidates).
FillPick ==
    /\ hpc = "fill"
    /\ PoolNotFull(active, conc)
    /\ target' \in Candidates(targets, active, recently_used)
    /\ hpc' = "fill_picked"
    /\ UNCHANGED <<cfgVars, conn, reader, busVars, events, active, recently_used,
                   hmid, start_t_sim, herr, jitVars, poll, logVars>>

\* query_position(bus, target) up to its await.
FillSendQuery ==
    /\ hpc = "fill_picked"
    /\ FreeIds # {}
    /\ RegisterQuery(futs, FreshId)
    /\ IF SendSucceeds
       THEN /\ hpc' = "fill_query"
            /\ hmid' = FreshId
            /\ UNCHANGED <<herr, recently_used>>
       ELSE FillFailed(ConnectionClosedErr)
    /\ UNCHANGED <<cfgVars, conn, reader, events, active, target, start_t_sim,
                   jitVars, poll, logVars>>

\* The position response arrived: query_position returns or raises; on
\* success build_waypoints and start_route up to its await.
FillQueryResume ==
    /\ hpc = "fill_query"
    /\ Resolved(hmid)
    /\ LET resp == futs[hmid].frame
           rest == Remove(futs, hmid)
       IN  IF ResponseFails(resp)
           THEN /\ FillFailed(QueryErrorMsg(target, resp))
                /\ futs' = rest
                /\ UNCHANGED <<pending_queries, pending_acks, start_t_sim>>
           ELSE /\ start_t_sim' = resp.t_sim
                /\ FreeIdsWith(rest) # {}
                /\ RegisterAck(rest, Smallest(FreeIdsWith(rest)))
                /\ IF SendSucceeds
                   THEN /\ hpc' = "fill_route"
                        /\ hmid' = Smallest(FreeIdsWith(rest))
                        /\ UNCHANGED <<herr, recently_used>>
                   ELSE FillFailed(ConnectionClosedErr)
    /\ UNCHANGED <<cfgVars, conn, reader, events, active, target, jitVars, poll,
                   logVars>>

\* The set.route ack arrived: start_route returns the command id or raises.
FillRouteResume ==
    /\ hpc = "fill_route"
    /\ Resolved(hmid)
    /\ LET ack == futs[hmid].frame
       IN  IF AckFails(ack)
           THEN /\ FillFailed(RouteErrorMsg(target, ack))
                /\ UNCHANGED <<active, route_log, target, start_t_sim>>
           ELSE /\ Len(route_log) < MaxLog
                /\ route_log' = Append(route_log, RouteRow(target, "start", hmid))
                /\ active' = Put(active, target,
                                 [cmd_id |-> hmid, last_t_sim |-> start_t_sim])
                /\ recently_used' = target
                /\ hpc' = "fill"
                /\ AttemptOver
                /\ UNCHANGED herr
    /\ futs' = Remove(futs, hmid)
    /\ UNCHANGED <<cfgVars, conn, reader, pending_queries, pending_acks,
                   events, jitVars, poll, pos_log, speed_log>>

\* asyncio.sleep(0) returned: the except clause ends (which unbinds err)
\* and `continue` re-enters the loop.
FillRetry ==
    /\ hpc = "fill_yield"
    /\ hpc' = "fill"
    /\ herr' = NoErr
    /\ AttemptOver
    /\ UNCHANGED <<cfgVars, conn, reader, busVars, events, active, recently_used,
                   jitVars, poll, logVars>>

\* The first run of a poll task: query_position(bus, t) up to its await.
\* mid is the id it draws; a failed send ends the task with the exception.
PollTask(mid) ==
    IF SendSucceeds
    THEN [st |-> "wait", mid |-> mid, t_sim |-> 0, err |-> NoErr]
    ELSE [st |-> "exc", mid |-> NoId, t_sim |-> 0, err |-> ConnectionClosedErr]

\* An assignment of distinct free ids to the targets of T, smallest first.
RECURSIVE DrawIds(_, _)
DrawIds(T, free) ==
    IF T = {} THEN <<>>
    ELSE LET t == CHOOSE x \in T : TRUE
             i == Smallest(free)
         IN  Put(DrawIds(T \ {t}, free \ {i}), t, i)

\* The pool is full: one poll task per active target is created and the
\* handler waits for all of them (asyncio.wait).  The new tasks run back to
\* back, in creation order, at the event loop's next iteration; each runs
\* query_position up to its await.
PollRoundStart ==
    /\ hpc = "fill"
    /\ ~PoolNotFull(active, conc)
    /\ Cardinality(FreeIds) >= Cardinality(DOMAIN active)
    /\ LET ids == DrawIds(DOMAIN active, FreeIds)
           new == {ids[t] : t \in DOMAIN active}
       IN  /\ poll' = [t \in DOMAIN active |-> PollTask(ids[t])]
           /\ pending_queries' = pending_queries \cup new
           /\ futs' = [m \in (DOMAIN futs) \cup new |->
                         IF m \in new THEN NewFuture("query") ELSE futs[m]]
    /\ hpc' = "poll_wait"
    /\ UNCHANGED <<cfgVars, conn, reader, pending_acks, events, active,
                   recently_used, fillVars, jitVars, logVars>>

\* A poll task's response arrived: the task ends with a result or an exception.
PollResume(t) ==
    /\ HandlerSuspended
    /\ t \in DOMAIN poll
    /\ poll[t].st = "wait"
    /\ Resolved(poll[t].mid)
    /\ LET resp == futs[poll[t].mid].frame
       IN  poll' = IF ResponseFails(resp)
                   THEN [poll EXCEPT ![t].st = "exc", ![t].mid = NoId,
                                     ![t].err = QueryErrorMsg(t, resp)]
                   ELSE [poll EXCEPT ![t].st = "ok", ![t].mid = NoId,
                                     ![t].t_sim = resp.t_sim]
    /\ futs' = Remove(futs, poll[t].mid)
    /\ UNCHANGED <<cfgVars, conn, reader, pending_queries, pending_acks,
                   events, active, recently_used, hpc, fillVars, jitVars, logVars>>

PollDone(t) == poll[t].st \in {"ok", "exc"}

\* `pos, t_sim = task.result()` returns for the task of target t: each
\* task's result is read in a try of its own.
PollSucceeded_allOrNone(p, t) == \A u \in DOMAIN p : p[u].st = "ok"
PollSucceeded(p, t) == p[t].st = "ok"

\* asyncio.wait returned: every task's result is read; a result updates
\* last_t_sim and is appended to positions.csv, an exception is printed.
PollJoin ==
    /\ hpc = "poll_wait"
    /\ \A t \in DOMAIN poll : PollDone(t)
    /\ active' = [t \in DOMAIN active |->
                    IF t \in DOMAIN poll /\ PollSucceeded(poll, t)
                    THEN [active[t] EXCEPT !.last_t_sim = poll[t].t_sim]
                    ELSE active[t]]
    /\ pos_log' = pos_log \cup
                    {PosRow(t, poll[t].t_sim) :
                        t \in {u \in DOMAIN poll : PollSucceeded(poll, u)}}
    /\ poll' = <<>>
    /\ hpc' = "drain"
    /\ UNCHANGED <<cfgVars, conn, reader, busVars, events, recently_used,
                   fillVars, jitVars, route_log, speed_log>>

\* `if ev.get("event") == "route.complete"` and `if t_id in active`
Retires_anyKind(ev, act) == ev.target_id \in DOMAIN act
Retires(ev, act) == ev.event = "route.complete" /\ ev.target_id \in DOMAIN act

\* bus.events.get_nowait() on a non-empty queue: the oldest event.
GetNowait_newest(q) == q[Len(q)]
GetNowait(q) == Head(q)

\* One iteration of the drain loop: ev = bus.events.get_nowait().
DrainOne ==
    /\ hpc = "drain"
    /\ events # <<>>
    /\ LET ev == GetNowait(events)
           t == ev.target_id
       IN  IF Retires(ev, active)
           THEN /\ Len(route_log) < MaxLog
                /\ route_log' = Append(route_log, RouteRow(t, "stop", active[t].cmd_id))
                /\ active' = Remove(active, t)
           ELSE UNCHANGED <<active, route_log>>
    /\ events' = Tail(events)
    /\ UNCHANGED <<cfgVars, conn, reader, busVars, recently_used, hpc, fillVars,
                   jitVars, poll, pos_log, speed_log>>

\* asyncio.QueueEmpty: break and asyncio.sleep(1.0 / POLL_HZ).
DrainDone ==
    /\ hpc = "drain"
    /\ events = <<>>
    /\ hpc' = "pause"
    /\ UNCHANGED <<cfgVars, conn, reader, busVars, events, active, recently_used,
                   fillVars, jitVars, poll, logVars>>

\* The pause is over: next tick (pos_log starts over with it).
PauseDone ==
    /\ hpc = "pause"
    /\ hpc' = "fill"
    /\ pos_log' = {}
    /\ UNCHANGED <<cfgVars, conn, reader, busVars, events, active, recently_used,
                   fillVars, jitVars, poll, route_log, speed_log>>

\* Task.cancel() on a task suspended on future m: a pending future is
\* cancelled (and stays in its table), a resolved one is never read.
CancelWaiter(f, awaiting, m) ==
    IF ~awaiting THEN f
    ELSE IF f[m].st = "pending" THEN [f EXCEPT ![m].st = "cancelled"]
    ELSE Remove(f, m)

\* The handler task is cancelled at one of its awaits (the server shuts
\* down): CancelledError is not an Exception, so it reaches the finally
\* block, which cancels the jitter task and awaits it.  The tick is over.
CancelHandler ==
    /\ hpc \in {"fill_query", "fill_route", "fill_yield", "poll_wait", "pause"}
    /\ futs' = CancelWaiter(
                  CancelWaiter(futs, hpc \in {"fill_query", "fill_route"}, hmid),
                  jpc = "wait_ack", jmid)
    /\ jpc' = "cancelling"
    /\ jmid' = NoId
    /\ hpc' = "td_jitter"
    /\ herr' = NoErr
    /\ AttemptOver
    /\ pos_log' = {}
    /\ UNCHANGED <<cfgVars, conn, reader, pending_queries, pending_acks,
                   events, active, recently_used, poll, route_log, speed_log>>

\* `await jitter_task` returned: bus.stop() cancels the reader task and
\* awaits it; a reader that already ended with an exception re-raises it.
TeardownStopBus ==
    /\ hpc = "td_jitter"
    /\ jpc = "done"
    /\ \/ reader = "running" /\ reader' = "cancelling" /\ hpc' = "td_reader"
       \/ reader = "ended" /\ reader' = reader /\ hpc' = "done"
       \/ reader \in {"failed", "crashed"} /\ reader' = reader /\ hpc' = "raised"
    /\ UNCHANGED <<cfgVars, conn, busVars, events, active, recently_used,
                   fillVars, jitVars, poll, logVars>>

\* `await self._reader_task` in stop(): CancelledError is swallowed.
TeardownDone ==
    /\ hpc = "td_reader"
    /\ reader = "cancelled"
    /\ hpc' = "done"
    /\ UNCHANGED <<cfgVars, conn, reader, busVars, events, active, recently_used,
                   fillVars, jitVars, poll, logVars>>

\* ------------------------------------------------------------- jitter
\* speed_jitter wakes from its sleep with a non-empty pool:
\* set_speed(bus, t_id, ...) up to its await; a failed send is printed.
\* speed_log starts over with the call.
JitterWake ==
    /\ HandlerSuspended
    /\ jpc = "sleep"
    /\ DOMAIN active # {}
    /\ FreeIds # {}
    /\ RegisterAck(futs, FreshId)
    /\ IF SendSucceeds
       THEN jpc' = "wait_ack" /\ jmid' = FreshId
       ELSE UNCHANGED jitVars
    /\ speed_log' = <<>>
    /\ UNCHANGED <<cfgVars, conn, reader, events, active, recently_used, hpc,
                   fillVars, poll, route_log, pos_log>>

\* The speed.set ack arrived: set_speed raises on command.error, else logs
\* the speed change and returns; speed_jitter prints either outcome.
JitterResume_retires ==
    /\ HandlerSuspended
    /\ jpc = "wait_ack"
    /\ Resolved(jmid)
    /\ speed_log' = IF AckFails(futs[jmid].frame) THEN speed_log
                    ELSE Append(speed_log, SpeedRow(jmid))
    /\ active' = <<>>
    /\ futs' = Remove(futs, jmid)
    /\ jpc' = "sleep"
    /\ jmid' = NoId
    /\ UNCHANGED <<cfgVars, conn, reader, pending_queries, pending_acks,
                   events, recently_used, hpc, fillVars, poll,
                   route_log, pos_log>>
JitterResume ==
    /\ HandlerSuspended
    /\ jpc = "wait_ack"
    /\ Resolved(jmid)
    /\ speed_log' = IF AckFails(futs[jmid].frame) THEN speed_log
                    ELSE Append(speed_log, SpeedRow(jmid))
    /\ futs' = Remove(futs, jmid)
    /\ jpc' = "sleep"
    /\ jmid' = NoId
    /\ UNCHANGED <<cfgVars, conn, reader, pending_queries, pending_acks,
                   events, active, recently_used, hpc, fillVars, poll,
                   route_log, pos_log>>

\* The cancelled jitter task runs: CancelledError ends it.
JitterCancelled ==
    /\ HandlerSuspended
    /\ jpc = "cancelling"
    /\ jpc' = "done"
    /\ UNCHANGED <<cfgVars, conn, reader, busVars, events, active, recently_used,
                   hpc, fillVars, jmid, poll, logVars>>

\* ------------------------------------------------------------- system
HandlerStep ==
    \/ FillPick
    \/ FillSendQuery
    \/ FillQueryResume
    \/ FillRouteResume
    \/ FillRetry
    \/ PollRoundStart
    \/ PollJoin
    \/ DrainOne
    \/ DrainDone
    \/ PauseDone
    \/ TeardownStopBus
    \/ TeardownDone

PollStep == \E t \in AllTargets : PollResume(t)

JitterStep == JitterWake \/ JitterResume \/ JitterCancelled

Next ==
    \/ HandlerStep
    \/ PollStep
    \/ JitterStep
    \/ ReaderRecv
    \/ ReaderClosed
    \/ ReaderCancelled
    \/ ConnClose
    \/ CancelHandler

Spec == Init /\ [][Next]_vars

\* The event loop runs every task that is ready; the peer's frames, the
\* closure of the connection and the cancellation of the handler are the
\* environment's and are under no fairness.
FairInit == Init /\ targets = {"A"} /\ conc = 1

FairSpec ==
    /\ FairInit
    /\ [][Next]_vars
    /\ WF_vars(HandlerStep)
    /\ WF_vars(PollStep)
    /\ WF_vars(JitterStep)
    /\ WF_vars(ReaderClosed)
    /\ WF_vars(ReaderCancelled)

\* A session with one target and CONCURRENCY = 1 whose peer sends events in
\* bursts: the backlog may hold MaxBurst events when a drain pass starts.
BurstNext ==
    \/ HandlerStep
    \/ PollStep
    \/ JitterStep
    \/ ReaderRecvBurst
    \/ ReaderClosed
    \/ ReaderCancelled
    \/ ConnClose
    \/ CancelHandler

BurstSpec == FairInit /\ [][BurstNext]_vars

TypeOK ==
    /\ targets \in TargetSets
    /\ conc \in 1..MaxConc
    /\ DOMAIN active \subseteq targets
    /\ pending_queries \cup pending_acks \subseteq DOMAIN futs
    /\ Len(events) <= MaxBacklog
    /\ Len(speed_log) <= 1
    /\ pos_log \subseteq {PosRow(t, ts) : t \in targets, ts \in TSims}

\* ============================================================= claims

\* C1: in every reachable state the active pool holds at most CONCURRENCY
\* targets, whatever the target set, CONCURRENCY and the peer's replies.
C1_PoolBounded == Cardinality(DOMAIN active) <= conc

\* A tick has ended (the handler pauses) with a full pool of two targets.
C1_Witness == hpc = "pause" /\ conc = 2 /\ Cardinality(DOMAIN active) = 2

\* C2 as stated: while a set.route command the fill step issued is
\* outstanding, its target is not a key of the active pool.
C2_NoRouteForPooled == hpc = "fill_route" => target \notin DOMAIN active

\* C3: a future is resolved by at most one set_result call, a query's future
\* only by a response whose msg_id is its id, a command's future only by an
\* event whose ref_msg_id is its id.
C3_ResolvedOnceByMatch ==
    \A m \in DOMAIN futs :
        /\ futs[m].nres <= 1
        /\ futs[m].st = "result" =>
              /\ futs[m].nres = 1
              /\ futs[m].kind = "query" =>
                    futs[m].frame.type = "response" /\ futs[m].frame.msg_id = m
              /\ futs[m].kind = "ack" =>
                    futs[m].frame.type = "event" /\ futs[m].frame.ref_msg_id = m

\* A query's future and a command's future are both resolved and not yet
\* read by their callers.
C3_Witness ==
    \E m, n \in DOMAIN futs :
        /\ futs[m].st = "result" /\ futs[m].kind = "query"
        /\ futs[n].st = "result" /\ futs[n].kind = "ack"

PollWaiting(t) == t \in DOMAIN poll /\ poll[t].st = "wait"

\* C4 as stated: a send_query caller (a poll task) that is still suspended
\* when Bus.stop() has cancelled the reader and returned eventually leaves
\* its suspended state.
C4_StopReleasesCallers ==
    \A t \in AllTargets :
        (hpc = "done" /\ reader = "cancelled" /\ PollWaiting(t)) ~> ~PollWaiting(t)

\* C5 as stated: a caller suspended on an unresolved future when the
\* connection is closed, and the reader loop has seen the closure, is
\* eventually completed.
C5_ClosureReleasesCallers ==
    \A m \in Ids :
        (/\ conn = "closed" /\ reader \in {"ended", "failed"}
         /\ Awaited(m) /\ futs[m].st = "pending") ~> ~Awaited(m)

\* C6 as stated: once the connection is closed and the reader loop has seen
\* the closure, the tick loop eventually ends and teardown completes.
C6_ClosureEndsSession ==
    (conn = "closed" /\ reader \in {"ended", "failed"}) ~> (hpc \in {"done", "raised"})

\* C7: the reader appends an event whose ref_msg_id is not a key of
\* pending_acks to the backlog and changes neither pending table nor any
\* future.  (The events of PeerFrames with such a ref_msg_id are the
\* command.ack events that name a pending query.)
C7_UnmatchedEventQueued ==
    [][\A msg \in AckFrames(pending_queries \ pending_acks) :
          (/\ msg.type = "event"
           /\ msg.ref_msg_id # NoId
           /\ msg.ref_msg_id \notin pending_acks
           /\ ReaderDispatch(msg))
          => /\ events' = Append(events, msg)
             /\ UNCHANGED <<pending_queries, pending_acks, futs>>]_vars

\* The backlog holds an event whose ref_msg_id is the id of a query that is
\* still pending.
C7_Witness ==
    \E i \in 1..Len(events) :
        /\ events[i].ref_msg_id \in pending_queries
        /\ futs[events[i].ref_msg_id].st = "pending"

LastRouteRow(t, ev) ==
    /\ route_log # <<>>
    /\ route_log[Len(route_log)].target_id = t
    /\ route_log[Len(route_log)].event = ev

C8Config == targets = {"A", "B"} /\ conc = 2

\* Draining a route.complete for A out of the pool {A, B} removes exactly A.
C8_DrainFreesA ==
    (/\ hpc = "drain"
     /\ events # <<>>
     /\ events' # events
     /\ Head(events).event = "route.complete"
     /\ Head(events).target_id = "A"
     /\ DOMAIN active = {"A", "B"})
    => /\ DOMAIN active' = {"B"}
       /\ active'["B"] = active["B"]

\* The fill pick that follows the drain of A, B still being active.
C8_PickAfterDrain ==
    /\ hpc = "fill"
    /\ hpc' = "fill_picked"
    /\ DOMAIN active = {"B"}
    /\ LastRouteRow("A", "stop")

\* C8 as stated: with targets {A, B} and CONCURRENCY 2, draining A's
\* route.complete removes exactly A and the next pick differs from lastUsed
\* (stated for the sessions whose connection is still open).
C8_NextPickAvoidsLastUsed ==
    [][C8Config =>
          /\ C8_DrainFreesA
          /\ (C8_PickAfterDrain /\ conn = "open") => target' # recently_used]_vars

\* C8 amended: ... and the next pick is A, the one target out of the pool,
\* also when A is lastUsed.
C8_NextPickIsFreedTarget ==
    [][C8Config =>
          /\ C8_DrainFreesA
          /\ C8_PickAfterDrain => target' = "A"]_vars

\* A was filled last, its route.complete was drained and A is picked again.
C8_Witness ==
    /\ C8Config
    /\ hpc = "fill_picked"
    /\ DOMAIN active = {"B"}
    /\ LastRouteRow("A", "stop")
    /\ recently_used = "A"
    /\ target = "A"

\* C9 as stated: every entry of a pending table belongs to a caller that is
\* still waiting for it.
C9_NoOrphanEntries == \A m \in pending_queries \cup pending_acks : Awaited(m)

\* C10: a caller of query_position resumed on a response with a non-empty
\* error fails with an error holding that text instead of getting a position,
\* and the response's msg_id is no longer in pending_queries.
C10_ErrorResponseFailsQuery ==
    [][/\ (/\ hpc = "fill_query"
           /\ Resolved(hmid)
           /\ futs[hmid].frame.error # ""
           /\ hpc' \notin {"fill_query", "td_jitter"})
          => /\ hpc' = "fill_yield"
             /\ futs[hmid].frame.error \in SeqRange(herr')
             /\ active' = active
             /\ hmid \notin pending_queries'
       /\ \A t \in DOMAIN poll :
             (/\ PollWaiting(t)
              /\ Resolved(poll[t].mid)
              /\ futs[poll[t].mid].frame.error # ""
              /\ ~PollWaiting(t)')
             => /\ poll'[t].st = "exc"
                /\ futs[poll[t].mid].frame.error \in SeqRange(poll'[t].err)
                /\ poll[t].mid \notin pending_queries']_vars

\* The fill step caught the error raised for a response with error "boom".
C10_Witness == hpc = "fill_yield" /\ "boom" \in SeqRange(herr)

\* C11 as stated: speed_jitter starts a set_speed call (enters
\* Bus.send_cmd_wait_ack) at no point where the reader has been torn down by
\* Bus.stop() or has left its loop because the connection closed.
C11_JitterCallsLiveBus ==
    [][JitterWake => reader \notin {"cancelling", "cancelled", "ended"}]_vars

\* C12 as stated: the reader discards a frame that is no well-formed
\* envelope, leaves the pending tables, the futures and the backlog as they
\* are and keeps running.
C12_MalformedDiscarded ==
    [][\A msg \in MalformedFrames :
          ReaderDispatch(msg)
          => /\ reader' = "running"
             /\ UNCHANGED <<pending_queries, pending_acks, futs, events>>]_vars

\* C13: a drain step that takes a route.complete event for a target outside
\* the pool, or an event of any other kind, leaves the pool (keys, cmd_id and
\* last_t_sim records) and route_log.csv unchanged.
C13_DrainIgnoresOthers ==
    [][(/\ hpc = "drain"
        /\ events # <<>>
        /\ events' # events
        /\ \/ Head(events).event # "route.complete"
           \/ Head(events).target_id \notin DOMAIN active)
       => /\ active' = active
          /\ route_log' = route_log]_vars

\* The drain loop is about to take a route.complete for a target outside a
\* non-empty pool.
C13_Witness ==
    /\ hpc = "drain"
    /\ events # <<>>
    /\ Head(events).event = "route.complete"
    /\ Head(events).target_id \notin DOMAIN active
    /\ DOMAIN active # {}

\* C14 as stated: Bus.stop() returns normally, also when the reader has
\* already terminated with a connection error.
C14_StopNeverRaises == ~(hpc = "raised" /\ reader = "failed")

\* C15: once Bus.stop() has returned, no step resolves a future, changes a
\* pending table or appends to the backlog.
C15_NoDispatchAfterStop ==
    [][hpc = "done"
       => /\ events' = events
          /\ pending_queries' = pending_queries
          /\ pending_acks' = pending_acks
          /\ \A m \in DOMAIN futs' :
                futs'[m].st = "result" => (m \in DOMAIN futs /\ futs[m].st = "result")]_vars

\* stop() has cancelled the reader and returned while the connection is
\* open and a poll task's query is still pending: its response may arrive.
C15_Witness ==
    /\ hpc = "done"
    /\ reader = "cancelled"
    /\ conn = "open"
    /\ \E t \in DOMAIN poll :
          /\ poll[t].st = "wait"
          /\ poll[t].mid \in pending_queries
          /\ futs[poll[t].mid].st = "pending"

\* C16: when the poll round's wait is over the tick goes to the drain step,
\* and every target whose poll task got its position has its last_t_sim
\* updated and a row in positions.csv, whatever became of the other tasks.
C16_PollFailuresAreLocal ==
    [][(hpc = "poll_wait" /\ hpc' \notin {"poll_wait", "td_jitter"})
       => /\ hpc' = "drain"
          /\ \A t \in DOMAIN poll :
                poll[t].st = "ok"
                => /\ t \in DOMAIN active'
                   /\ active'[t].last_t_sim = poll[t].t_sim
                   /\ PosRow(t, poll[t].t_sim) \in pos_log']_vars

\* A round over two active targets ended with one position recorded: the
\* other target's query failed on an error response.
C16_Witness ==
    /\ hpc = "drain"
    /\ conn = "open"
    /\ Cardinality(DOMAIN active) = 2
    /\ \E t \in DOMAIN active : pos_log = {PosRow(t, active[t].last_t_sim)}

\* C17: a fill attempt that fails leaves the pool unchanged and makes the
\* failed candidate lastUsed, and after the yield another target is picked
\* (unless the handler is cancelled meanwhile).
C17_FailedFillRetries ==
    /\ [][(hpc \in {"fill_picked", "fill_query", "fill_route"} /\ hpc' = "fill_yield")
          => /\ active' = active
             /\ recently_used' = target]_vars
    /\ (hpc = "fill_yield") ~> (hpc \in {"fill_picked", "td_jitter"})

\* The fill step caught the failure of a set.route answered by command.error.
C17_Witness ==
    /\ hpc = "fill_yield"
    /\ recently_used = target
    /\ herr = RouteErrorMsg(target, Frame("event", NoId, NoId, "command.error", "", "", "denied", 0))

\* C18: the keys of the active pool change only in the handler's fill step
\* (a started route) and drain step (a retired target); a step taken while
\* the handler stays suspended where it is (a step of speed_jitter, of the
\* reader, of a poll task or of the peer) leaves the pool as it is.
C18_PoolChangedByTickOnly ==
    [][/\ DOMAIN active' # DOMAIN active => (FillRouteResume \/ DrainOne)
       /\ (HandlerSuspended /\ hpc' = hpc) => active' = active]_vars

\* speed_jitter has logged a speed change and the reader has queued an event
\* while both targets are in the pool.
C18_Witness ==
    /\ speed_log # <<>>
    /\ jpc = "sleep"
    /\ events # <<>>
    /\ Cardinality(DOMAIN active) = 2

\* C19: start_route resumed on a command.error event fails with an error
\* holding the event's detail, logs no route start and adds no target to the
\* pool; resumed on any other acknowledging event it logs the start and
\* returns the command id, which the fill step stores in the pool.  set_speed
\* resumed on a command.error event logs no speed change; resumed on any
\* other acknowledging event it logs the change under the command id.
C19_AckDecidesOutcome ==
    [][/\ (/\ hpc = "fill_route"
           /\ Resolved(hmid)
           /\ hpc' \notin {"fill_route", "td_jitter"})
          => IF futs[hmid].frame.event = "command.error"
             THEN /\ hpc' = "fill_yield"
                  /\ futs[hmid].frame.detail \in SeqRange(herr')
                  /\ route_log' = route_log
                  /\ active' = active
             ELSE /\ hpc' = "fill"
                  /\ route_log' = Append(route_log, RouteRow(target, "start", hmid))
                  /\ target \in DOMAIN active'
                  /\ active'[target].cmd_id = hmid
       /\ (/\ jpc = "wait_ack"
           /\ Resolved(jmid)
           /\ jpc' = "sleep")
          => IF futs[jmid].frame.event = "command.error"
             THEN speed_log' = speed_log
             ELSE speed_log' = Append(speed_log, SpeedRow(jmid))]_vars

\* set_speed has logged a speed change, and start_route is about to resume
\* on an acknowledging event that is neither command.ack nor command.error.
C19_Witness ==
    /\ speed_log # <<>>
    /\ hpc = "fill_route"
    /\ Resolved(hmid)
    /\ futs[hmid].frame.event = "other"

\* What every step of the reader satisfies: the reader is running and the
\* other tasks and the connection stay as they are.
ReaderOnlyStep ==
    reader = "running" /\ hpc' = hpc /\ jpc' = jpc /\ poll' = poll /\ conn' = conn

\* C20: the reader drops a response whose msg_id is not a key of
\* pending_queries: the backlog, both pending tables and every future stay
\* as they are.  (The responses of PeerFrames with such a msg_id name a
\* pending command or an id of no query.)
C20_UnmatchedResponseDropped ==
    [][ReaderOnlyStep =>
          \A msg \in ResponseFrames((pending_acks \cup {UnknownId}) \ pending_queries) :
             (/\ msg.type = "response"
              /\ msg.msg_id \notin pending_queries
              /\ ReaderDispatch(msg))
             => UNCHANGED <<events, pending_queries, pending_acks, futs>>]_vars

\* The reader is running with an empty backlog while a command waits for its
\* acknowledgement: a response that names the command's id, or an id of no
\* query, can arrive.
C20_Witness ==
    /\ reader = "running"
    /\ conn = "open"
    /\ events = <<>>
    /\ hpc = "fill_route"
    /\ hmid \in pending_acks
    /\ hmid \notin pending_queries
    /\ futs[hmid].st = "pending"

\* C21: every pick of the fill step takes its candidate from the targets
\* that are neither pooled nor lastUsed when there is one, else from the
\* non-pooled targets when there is one, else from the whole target set.
\* So lastUsed is picked only when no other target is non-pooled, and a
\* pooled target only when every target is pooled.
C21_ThreeLevelFallback ==
    [][(hpc = "fill" /\ hpc' = "fill_picked") =>
          LET free == targets \ DOMAIN active
              fresh == free \ {recently_used}
          IN  /\ target' \in targets
              /\ fresh # {} => target' \in fresh
              /\ (fresh = {} /\ free # {}) => target' \in free
              /\ target' = recently_used => free \subseteq {recently_used}
              /\ target' \in DOMAIN active => free = {}]_vars

\* The second level has acted: with another target pooled, the fill step
\* picked lastUsed again, the only target left out of the pool.
C21_Witness ==
    /\ hpc = "fill_picked"
    /\ target = recently_used
    /\ target \notin DOMAIN active
    /\ DOMAIN active # {}

\* The handler is inside the fill loop (`while len(active) < CONCURRENCY`).
C22_InFillStep ==
    hpc \in {"fill", "fill_picked", "fill_query", "fill_route", "fill_yield"}

\* C22: a poll round and a drain pass start only with a pool of exactly
\* CONCURRENCY targets, and a step taken while the handler is in the fill
\* loop with a free slot creates no poll task, takes no event out of the
\* backlog (the backlog only grows) and records no stop.
C22_PollAndDrainNeedFullPool ==
    [][/\ (hpc # "poll_wait" /\ hpc' = "poll_wait") =>
             /\ Cardinality(DOMAIN active) = conc
             /\ DOMAIN poll' = DOMAIN active
       /\ (hpc # "drain" /\ hpc' = "drain") =>
             Cardinality(DOMAIN active') = conc
       /\ (C22_InFillStep /\ Cardinality(DOMAIN active) < conc) =>
             /\ poll = <<>> /\ poll' = <<>>
             /\ hpc' \notin {"poll_wait", "drain"}
             /\ Len(events') >= Len(events)
             /\ SubSeq(events', 1, Len(events)) = events
             /\ \A i \in (Len(route_log) + 1)..Len(route_log') :
                   route_log'[i].event # "stop"]_vars

\* A fill attempt has failed while another target is pooled and its
\* route.complete event waits in the backlog.
C22_Witness ==
    /\ hpc = "fill_yield"
    /\ DOMAIN active # {}
    /\ Cardinality(DOMAIN active) < conc
    /\ events # <<>>
    /\ Head(events).event = "route.complete"
    /\ Head(events).target_id \in DOMAIN active

\* The rows of route_log.csv that name target t, in file order.
C23_RowsOf(t) ==
    LET Names(r) == r.target_id = t
    IN  SelectSeq(route_log, Names)

\* C23 as stated: for each target the route_log rows alternate start, stop,
\* start, ... beginning with a start; each stop carries the command id of
\* the start before it; and the target is in the pool exactly while its
\* last row is a start (a start is recorded when it enters the pool, a stop
\* when it leaves).
C23_StartStopAlternate ==
    \A t \in AllTargets :
        LET rows == C23_RowsOf(t)
        IN  /\ \A i \in 1..Len(rows) :
                  /\ rows[i].event = IF i % 2 = 1 THEN "start" ELSE "stop"
                  /\ i % 2 = 0 => rows[i].ref_msg_id = rows[i - 1].ref_msg_id
            /\ t \in DOMAIN active <=> Len(rows) % 2 = 1
            /\ t \in DOMAIN active =>
                  active[t].cmd_id = rows[Len(rows)].ref_msg_id

\* C24: a drain pass ends only on an empty backlog; while it runs nothing
\* is appended to the backlog; the backlog changes only by the reader
\* appending one event at its end or by the drain loop removing its first
\* event, and the step that removes an event acts on that event and on no
\* other (a matching route.complete retires its target, anything else
\* changes nothing), so no event is skipped and none is acted on twice.
C24_DrainIsAtomic ==
    [][/\ (hpc = "drain" /\ hpc' # "drain") => events = <<>> /\ events' = <<>>
       /\ (hpc = "drain" /\ events' = events) =>
             active' = active /\ route_log' = route_log
       /\ events' # events =>
             \/ /\ hpc # "drain"
                /\ Len(events') = Len(events) + 1
                /\ SubSeq(events', 1, Len(events)) = events
             \/ /\ hpc = "drain" /\ hpc' = "drain"
                /\ events # <<>>
                /\ events' = Tail(events)
                /\ LET ev == events[1]
                       t == ev.target_id
                   IN  IF ev.event = "route.complete" /\ t \in DOMAIN active
                       THEN /\ active' = Remove(active, t)
                            /\ route_log' =
                                  Append(route_log,
                                         RouteRow(t, "stop", active[t].cmd_id))
                       ELSE active' = active /\ route_log' = route_log]_vars

\* A drain pass that started on a backlog of two events (the pool was full
\* when it started) has retired the target with one of them and has the
\* other still to take.
C24_Witness ==
    /\ hpc = "drain"
    /\ Len(events) = 1
    /\ DOMAIN active = {}
    /\ route_log # <<>>
    /\ route_log[Len(route_log)].event = "stop"
====
